---- MODULE Spec2Model ----
(***************************************************************************)
(* The "favorites" Anchor program (src/1-favorite-program/lib.rs): one     *)
(* instruction, set_favorites, which stores (number, color, hobbies) in a  *)
(* program-derived account of the signing user.                            *)
(*                                                                         *)
(* The state is the ledger's accounts.  A transaction that carries one     *)
(* set_favorites instruction is modelled twice: as one atomic step (Spec), *)
(* which is what the ledger exposes, and as the three phases Anchor runs   *)
(* inside it (SpecSteps): account validation with init_if_needed, the      *)
(* handler body, and the exit that serializes the account.                 *)
(***************************************************************************)
EXTENDS Integers, Sequences, FiniteSets, TLC

\* ------------------------------------------------------------------ bounds

\* Number of identities (key pairs) that submit transactions.
NumUsers == 2

\* --------------------------------------------------------------- constants

ANCHOR_DISCRIMINATOR_SIZE == 8

\* size of a u64 (Favorites.number)
U64_SIZE == 8

\* Borsh writes a String and a Vec with a u32 length in front
BORSH_LEN_PREFIX == 4

\* #[max_len(50)] on color
COLOR_MAX_LEN == 50

\* #[max_len(5, 50)] on hobbies
HOBBIES_MAX_COUNT == 5

HOBBY_MAX_LEN == 50

\* Rent: lamports per byte for rent exemption, and the per-account overhead
\* that the payer of an init pays for (the ledger's default rent schedule).
LAMPORTS_PER_BYTE == 6960

ACCOUNT_STORAGE_OVERHEAD == 128

\* -------------------------------------------------------- keys and addresses

SYSTEM_PROGRAM == "system_program"

\* declare_id!: the program that owns the favorites accounts
PROGRAM_ID == "favorites_program"

\* A user's public key.
Key(i) == <<"key", i>>

Users == { Key(i) : i \in 1..NumUsers }

\* Faulty variant of PDA: the seeds leave out the user's key.
PDA_SharedSeed(user) == <<"favorites">>

\* seeds = [b"favorites", user.key().as_ref()], bump: the address derived from
\* the seeds under the program id.  The derivation is a collision-resistant
\* hash of the seed bytes; the address is represented by the seed bytes.
PDA(user) == <<"favorites">> \o user

Addresses == Users \cup { PDA(u) : u \in Users }

\* ------------------------------------------------------------- Favorites

\* The Favorites struct.
Favorites(number, color, hobbies) ==
    [number |-> number, color |-> color, hobbies |-> hobbies]

RECURSIVE SumLen(_)
\* Sum over a sequence of strings of the Borsh size of each.
SumLen(strings) ==
    IF strings = <<>> THEN 0
    ELSE BORSH_LEN_PREFIX + Len(Head(strings)) + SumLen(Tail(strings))

\* Faulty variant of INIT_SPACE: the Vec's own length prefix is forgotten.
INIT_SPACE_NoVecPrefix ==
    U64_SIZE + (BORSH_LEN_PREFIX + COLOR_MAX_LEN)
             + HOBBIES_MAX_COUNT * (BORSH_LEN_PREFIX + HOBBY_MAX_LEN)

\* #[derive(InitSpace)]: the sum of the fields' maximum Borsh sizes.
INIT_SPACE ==
    U64_SIZE + (BORSH_LEN_PREFIX + COLOR_MAX_LEN)
             + (BORSH_LEN_PREFIX + HOBBIES_MAX_COUNT * (BORSH_LEN_PREFIX + HOBBY_MAX_LEN))

\* space = ANCHOR_DISCRIMINATOR_SIZE + Favorites::INIT_SPACE
Space == ANCHOR_DISCRIMINATOR_SIZE + INIT_SPACE

\* The lamports an account of the given size needs to be rent exempt.
RentExemptMinimum(space) == (ACCOUNT_STORAGE_OVERHEAD + space) * LAMPORTS_PER_BYTE

\* ---------------------------------------------------------- Borsh encoding

\* The first 8 bytes Anchor writes to an account of type Favorites.
DISCRIMINATOR == "account:Favorites"

\* A String on the wire: u32 length, then the bytes.
BorshString(s) == [len |-> Len(s), bytes |-> s]

\* A Vec<String> on the wire: u32 count, then each String.
BorshVec(v) == [len |-> Len(v), items |-> [i \in 1..Len(v) |-> BorshString(v[i])]]

\* Account data that is all zero bytes (a fresh allocation), read field by field.
Zeroed ==
    [discriminator |-> "", number |-> 0, color |-> BorshString(""), hobbies |-> BorshVec(<<>>)]

\* AccountSerialize: the discriminator, then the Borsh encoding of the fields.
try_serialize(fav) ==
    [discriminator |-> DISCRIMINATOR,
     number        |-> fav.number,
     color         |-> BorshString(fav.color),
     hobbies       |-> BorshVec(fav.hobbies)]

\* AccountDeserialize: the fields read back from the encoding.
try_deserialize(data) ==
    Favorites(data.number,
              data.color.bytes,
              [i \in 1..data.hobbies.len |-> data.hobbies.items[i].bytes])

\* The number of bytes try_serialize writes.
SerializedLen(fav) ==
    ANCHOR_DISCRIMINATOR_SIZE + U64_SIZE
        + (BORSH_LEN_PREFIX + Len(fav.color))
        + (BORSH_LEN_PREFIX + SumLen(fav.hobbies))

\* ---------------------------------------------------------------- accounts

\* An address that holds nothing: no lamports, owned by the system program.
Absent == [lamports |-> 0, owner |-> SYSTEM_PROGRAM, space |-> 0, data |-> Zeroed]

\* A user's wallet.
Wallet(lamports) == [lamports |-> lamports, owner |-> SYSTEM_PROGRAM, space |-> 0, data |-> Zeroed]

\* An account that holds a Favorites record.
IsRecord(acct) == acct.owner = PROGRAM_ID /\ acct.data.discriminator = DISCRIMINATOR

Result(result, accts, inner) == [result |-> result, accounts |-> accts, inner |-> inner]

Max(a, b) == IF a >= b THEN a ELSE b

\* Faulty variant of create_account: the payer's balance is not checked.
create_account_Unchecked(accts, payer, new, space, owner) ==
    LET required == Max(0, RentExemptMinimum(space) - accts[new].lamports)
        paid     == [accts EXCEPT ![payer].lamports = @ - required]
    IN  Result("Ok",
               [paid EXCEPT ![new] = [lamports |-> paid[new].lamports + required,
                                      owner |-> owner, space |-> space, data |-> Zeroed]],
               try_deserialize(Zeroed))

\* init with payer = user: the system program moves the rent-exempt minimum from
\* the payer to the new address, allocates `space` zero bytes there and assigns
\* the address to `owner`.  It fails when the payer has too few lamports.
create_account(accts, payer, new, space, owner) ==
    LET required == Max(0, RentExemptMinimum(space) - accts[new].lamports)
        paid     == [accts EXCEPT ![payer].lamports = @ - required]
    IN  IF accts[payer].lamports < required
        THEN Result("InsufficientFunds", accts, try_deserialize(Zeroed))
        ELSE Result("Ok",
                    [paid EXCEPT ![new] = [lamports |-> paid[new].lamports + required,
                                           owner |-> owner, space |-> space, data |-> Zeroed]],
                    try_deserialize(Zeroed))

\* Account::try_from on an account that exists already: it must belong to the
\* program and start with the discriminator of Favorites.
try_from(accts, address) ==
    IF accts[address].owner # PROGRAM_ID
    THEN Result("AccountOwnedByWrongProgram", accts, try_deserialize(Zeroed))
    ELSE IF accts[address].data.discriminator # DISCRIMINATOR
    THEN Result("AccountDiscriminatorMismatch", accts, try_deserialize(Zeroed))
    ELSE Result("Ok", accts, try_deserialize(accts[address].data))

\* init_if_needed: create the account when the system program still owns the
\* address, load it otherwise; then check the size and the owner.  The creation
\* is a call into the system program that debits the payer, which the runtime
\* refuses when the transaction passed the payer read-only.
init_if_needed(accts, payer, payerWritable, address) ==
    LET loaded == IF accts[address].owner = SYSTEM_PROGRAM
                  THEN IF payerWritable
                       THEN create_account(accts, payer, address, Space, PROGRAM_ID)
                       ELSE Result("PrivilegeEscalation", accts, try_deserialize(Zeroed))
                  ELSE try_from(accts, address)
    IN  IF loaded.result # "Ok" THEN loaded
        ELSE IF loaded.accounts[address].space # Space
        THEN Result("ConstraintSpace", accts, loaded.inner)
        ELSE IF loaded.accounts[address].owner # PROGRAM_ID
        THEN Result("ConstraintOwner", accts, loaded.inner)
        ELSE loaded

\* Faulty variant of SetFavorites: user is an unchecked account, not a Signer.
SetFavorites_NoSigner(accts, call) ==
    IF call.favorites # PDA(call.user)
    THEN Result("ConstraintSeeds", accts, try_deserialize(Zeroed))
    ELSE LET init == init_if_needed(accts, call.user, call.writable, call.favorites)
         IN  IF init.result = "Ok" /\ ~call.writable
             THEN Result("ConstraintMut", accts, init.inner)
             ELSE init

\* Faulty variant of SetFavorites: the favorites account has no seeds constraint.
SetFavorites_NoSeeds(accts, call) ==
    IF ~call.signer
    THEN Result("AccountNotSigner", accts, try_deserialize(Zeroed))
    ELSE LET init == init_if_needed(accts, call.user, call.writable, call.favorites)
         IN  IF init.result = "Ok" /\ ~call.writable
             THEN Result("ConstraintMut", accts, init.inner)
             ELSE init

\* #[derive(Accounts)] struct SetFavorites: the checks run on the accounts of
\* the instruction before the handler: user must have signed; favorites must be
\* the address derived from "favorites" and user's key, and is created if
\* needed, paid by user; user must have been passed writable (mut).
SetFavorites(accts, call) ==
    IF ~call.signer
    THEN Result("AccountNotSigner", accts, try_deserialize(Zeroed))
    ELSE IF call.favorites # PDA(call.user)
    THEN Result("ConstraintSeeds", accts, try_deserialize(Zeroed))
    ELSE LET init == init_if_needed(accts, call.user, call.writable, call.favorites)
         IN  IF init.result = "Ok" /\ ~call.writable
             THEN Result("ConstraintMut", accts, init.inner)
             ELSE init

\* Faulty variant of set_favorites: the new hobbies are appended to the old.
set_favorites_Append(inner, number, color, hobbies) ==
    Favorites(number, color, inner.hobbies \o hobbies)

\* The handler body: set_inner replaces the loaded account by the arguments.
set_favorites(inner, number, color, hobbies) ==
    Favorites(number, color, hobbies)

\* Faulty variant of exit: the encoding is written whatever its length.
exit_Unchecked(accts, address, inner) ==
    Result("Ok", [accts EXCEPT ![address].data = try_serialize(inner)], inner)

\* Account::exit: the account is serialized into its data, which fails when the
\* encoding is longer than the data.
exit(accts, address, inner) ==
    IF SerializedLen(inner) > accts[address].space
    THEN Result("AccountDidNotSerialize", accts, inner)
    ELSE Result("Ok", [accts EXCEPT ![address].data = try_serialize(inner)], inner)

\* One transaction with one set_favorites instruction: the accounts are
\* checked, the handler runs, the account is written back; when any of them
\* fails the ledger keeps the accounts as they were before the transaction.
ProcessInstruction(accts, call) ==
    LET checked == SetFavorites(accts, call)
    IN  IF checked.result # "Ok" THEN Result(checked.result, accts, checked.inner)
        ELSE LET inner == set_favorites(checked.inner, call.number, call.color, call.hobbies)
                 done  == exit(checked.accounts, call.favorites, inner)
             IN  IF done.result # "Ok" THEN Result(done.result, accts, inner)
                 ELSE done

\* ------------------------------------------------------------------ inputs

\* A color of exactly COLOR_MAX_LEN bytes, and one byte more.
Color50 == "cccccccccccccccccccccccccccccccccccccccccccccccccc"

Color51 == "ccccccccccccccccccccccccccccccccccccccccccccccccccc"

\* A hobby of exactly HOBBY_MAX_LEN bytes.
Hobby50 == "hhhhhhhhhhhhhhhhhhhhhhhhhhhhhhhhhhhhhhhhhhhhhhhhhh"

\* The argument triples the transactions carry: the two examples of the
\* specification, the largest valid input, and inputs over the declared
\* maxima, both ones that fit the reserved space and ones that do not.
Arguments ==
    { Favorites(42, "blue", <<"chess", "reading">>),
      Favorites(7, "red", <<>>),
      Favorites(7, Color50, <<Hobby50, Hobby50, Hobby50, Hobby50, Hobby50>>),
      Favorites(42, Color51, <<>>),
      Favorites(42, Color51, <<Hobby50, Hobby50, Hobby50, Hobby50, Hobby50>>),
      Favorites(7, "red", <<"", "", "", "", "", "">>),
      Favorites(42, "blue", <<Hobby50, Hobby50, Hobby50, Hobby50, Hobby50, Hobby50>>) }

\* What a wallet holds at the start: one lamport short of the creation cost, or
\* twice the creation cost.
InitialLamports == { RentExemptMinimum(Space) - 1, 2 * RentExemptMinimum(Space) }

\* A transaction: the account given as user, whether its key signed and
\* whether it was passed writable, the account given as favorites (the derived
\* address of some user), and the instruction's arguments.
Call(user, signer, writable, favorites, args) ==
    [user |-> user, signer |-> signer, writable |-> writable, favorites |-> favorites,
     number |-> args.number, color |-> args.color, hobbies |-> args.hobbies]

\* The transactions submitted: every user, signed or not, naming any user's
\* derived address, with user writable; and those of a user that signed for its
\* own address but was passed read-only.
Calls ==
    { Call(u, s, TRUE, f, a) :
        u \in Users, s \in BOOLEAN, f \in { PDA(v) : v \in Users }, a \in Arguments }
    \cup { Call(u, TRUE, FALSE, PDA(u), a) : u \in Users, a \in Arguments }

ArgsOf(call) == Favorites(call.number, call.color, call.hobbies)

\* ------------------------------------------------------------------- state

VARIABLES
    accounts,   \* the ledger: address -> [lamports, owner, space, data]
    last,       \* the last transaction and its result
    written,    \* per user, the arguments of its last successful call (<<>>: none)
    writers,    \* per address, the users whose successful calls named it as favorites
    pc,         \* SpecSteps: the phase of the transaction in flight
    tx          \* SpecSteps: the transaction in flight

vars == <<accounts, last, written, writers, pc, tx>>

NoCall == Call(Key(0), FALSE, FALSE, Key(0), try_deserialize(Zeroed))

NoTx == [call |-> NoCall, inner |-> try_deserialize(Zeroed), before |-> <<>>]

Init ==
    /\ \E funds \in [Users -> InitialLamports] :
          accounts = [a \in Addresses |-> IF a \in Users THEN Wallet(funds[a]) ELSE Absent]
    /\ last = [call |-> NoCall, result |-> "None"]
    /\ written = [u \in Users |-> <<>>]
    /\ writers = [a \in Addresses |-> {}]
    /\ pc = "idle"
    /\ tx = NoTx

\* The record of what a finished transaction did.
Finished(call, result) ==
    /\ last' = [call |-> call, result |-> result]
    /\ written' = IF result = "Ok"
                  THEN [written EXCEPT ![call.user] = <<ArgsOf(call)>>]
                  ELSE written
    /\ writers' = IF result = "Ok"
                  THEN [writers EXCEPT ![call.favorites] = @ \cup {call.user}]
                  ELSE writers

\* A transaction with one set_favorites instruction, start to end.
Transaction(call) ==
    /\ pc = "idle"
    /\ LET done == ProcessInstruction(accounts, call)
       IN  /\ accounts' = done.accounts
           /\ Finished(call, done.result)
    /\ UNCHANGED <<pc, tx>>

Next == \E call \in Calls : Transaction(call)

Spec == Init /\ [][Next]_vars

\* The same transaction in the phases Anchor runs.  First the accounts are
\* checked, which creates the favorites account when it is missing.
BeginTransaction(call) ==
    /\ pc = "idle"
    /\ LET checked == SetFavorites(accounts, call)
       IN  IF checked.result # "Ok"
           THEN /\ Finished(call, checked.result)
                /\ UNCHANGED <<accounts, pc, tx>>
           ELSE /\ accounts' = checked.accounts
                /\ tx' = [call |-> call, inner |-> checked.inner, before |-> accounts]
                /\ pc' = "handler"
                /\ last' = [call |-> call, result |-> "Pending"]
                /\ UNCHANGED <<written, writers>>

\* Then the handler body runs on the loaded account.
RunHandler ==
    /\ pc = "handler"
    /\ tx' = [tx EXCEPT !.inner =
                 set_favorites(tx.inner, tx.call.number, tx.call.color, tx.call.hobbies)]
    /\ pc' = "exit"
    /\ UNCHANGED <<accounts, last, written, writers>>

\* Faulty variant of EndTransaction: a failure at exit is not undone.
EndTransaction_NoRollback ==
    /\ pc = "exit"
    /\ LET done == exit(accounts, tx.call.favorites, tx.inner)
       IN  /\ accounts' = done.accounts
           /\ Finished(tx.call, done.result)
    /\ pc' = "idle"
    /\ tx' = NoTx

\* Then the account is written back; a failure undoes the whole transaction.
EndTransaction ==
    /\ pc = "exit"
    /\ LET done == exit(accounts, tx.call.favorites, tx.inner)
       IN  /\ accounts' = IF done.result = "Ok" THEN done.accounts ELSE tx.before
           /\ Finished(tx.call, done.result)
    /\ pc' = "idle"
    /\ tx' = NoTx

NextSteps ==
    \/ \E call \in Calls : BeginTransaction(call)
    \/ RunHandler
    \/ EndTransaction

SpecSteps == Init /\ [][NextSteps]_vars

\* ------------------------------------------------------------- observation

\* The record stored for a user: what a client reads at the derived address
\* (<<>> when there is none).
Read(accts, user) ==
    IF IsRecord(accts[PDA(user)]) THEN <<try_deserialize(accts[PDA(user)].data)>> ELSE <<>>

\* The cost of creating a favorites account.
CreationCost == RentExemptMinimum(Space)

\* The arguments are within the declared maxima.
ValidInput(call) ==
    /\ Len(call.color) <= 50
    /\ Len(call.hobbies) <= 5
    /\ \A i \in 1..Len(call.hobbies) : Len(call.hobbies[i]) <= 50

\* The transaction is signed by its user, passes it writable and names the
\* user's own derived address.
OwnCall(call) == call.signer /\ call.writable /\ call.favorites = PDA(call.user)

\* The step is a finished transaction that failed.
Failed(result) == result \notin {"Ok", "Pending", "None"}

RECURSIVE HobbiesSize(_)
HobbiesSize(hobbies) ==
    IF hobbies = <<>> THEN 0 ELSE (4 + Len(Head(hobbies))) + HobbiesSize(Tail(hobbies))

\* The encoded size of a record as the specification states it.
EncodedSize(fav) == 8 + 8 + (4 + Len(fav.color)) + (4 + HobbiesSize(fav.hobbies))

\* ------------------------------------------------------------------ claims

\* C1: a set_favorites call with valid input, signed by a sufficiently funded
\* user for its own derived address, succeeds, and after it the user's record
\* is exactly the call's (number, color, hobbies); in every state each user's
\* record is the arguments of that user's most recent successful call.
C1_SetThenRead ==
    [][ LET call == last'.call
        IN  /\ (OwnCall(call) /\ ValidInput(call)
                  /\ (Read(accounts, call.user) # <<>>
                        \/ accounts[call.user].lamports >= CreationCost))
                 => (last'.result = "Ok" /\ Read(accounts', call.user) = <<ArgsOf(call)>>)
            /\ \A u \in Users : Read(accounts', u) = written'[u] ]_vars

\* C1 witness: the largest valid input has been stored and reads back.
C1_Witness ==
    /\ last.result = "Ok"
    /\ Len(last.call.color) = 50
    /\ Len(last.call.hobbies) = 5
    /\ Read(accounts, last.call.user) = <<ArgsOf(last.call)>>

\* C2: a set_favorites call whose color is 51 bytes long is rejected and
\* leaves the accounts as they were.
C2_Color51Rejected ==
    [][ Len(last'.call.color) = 51 => (last'.result # "Ok" /\ accounts' = accounts) ]_vars

\* C3: a set_favorites call with 6 hobbies is rejected and leaves the accounts
\* as they were.
C3_SixHobbiesRejected ==
    [][ Len(last'.call.hobbies) = 6 => (last'.result # "Ok" /\ accounts' = accounts) ]_vars

\* C4: the record of U changes only in a successful call that U signed and that
\* names the address derived from U's key; a call whose user did not sign
\* fails, and so does a call that names another address than its user's own.
C4_OnlyOwnerWrites ==
    [][ /\ \A u \in Users :
              accounts'[PDA(u)] # accounts[PDA(u)]
                 => (last'.call.user = u /\ last'.call.signer /\ last'.result = "Ok")
        /\ ~last'.call.signer => last'.result = "AccountNotSigner"
        /\ (last'.call.signer /\ last'.call.favorites # PDA(last'.call.user))
              => last'.result = "ConstraintSeeds" ]_vars

\* C4 witness: a signed call that named another user's existing record was
\* refused.
C4_Witness ==
    /\ last.result = "ConstraintSeeds"
    /\ last.call.signer
    /\ IsRecord(accounts[last.call.favorites])
    /\ last.call.favorites # PDA(last.call.user)

\* C5: a call by one identity leaves the record, the wallet and the history of
\* every other identity unchanged, and each identity's record is the one its
\* own last successful call wrote.
C5_NoInterference ==
    [][ \A v \in Users :
           /\ v # last'.call.user
                => /\ accounts'[PDA(v)] = accounts[PDA(v)]
                   /\ accounts'[v] = accounts[v]
                   /\ written'[v] = written[v]
           /\ Read(accounts', v) = written'[v] ]_vars

\* C5 witness: two identities hold different records, each its own.
C5_Witness ==
    \E u, v \in Users :
        /\ u # v
        /\ written[u] # <<>> /\ written[v] # <<>>
        /\ written[u] # written[v]
        /\ Read(accounts, u) = written[u] /\ Read(accounts, v) = written[v]

C7_SpaceAsStated ==
    \A a \in Addresses : accounts[a].owner = PROGRAM_ID => accounts[a].space = 8 + 8 + 54 + 254

\* C7 amended: the space of a favorites account is the sum of an 8-byte header,
\* 8 bytes for number, 54 bytes for color (4 + 50) and 274 bytes for hobbies
\* (4 + 5 x (4 + 50)).
C7_Space ==
    \A a \in Addresses :
        accounts[a].owner = PROGRAM_ID
           => /\ accounts[a].space = 8 + 8 + (4 + 50) + (4 + 5 * (4 + 50))
              /\ accounts[a].space = 8 + 8 + 54 + 274

\* C7 witness: a favorites account has been created.
C7_Witness == \E a \in Addresses : accounts[a].owner = PROGRAM_ID /\ accounts[a].space > 0

\* C8: each identity with a successful call has exactly one record, at the
\* address derived from "favorites" and its key, the same in every call; no
\* two identities share an address, and there is no other record.
C8_OneRecordPerIdentity ==
    /\ \A u \in Users :
          written[u] # <<>>
             => /\ { a \in Addresses : u \in writers[a] } = { PDA(u) }
                /\ IsRecord(accounts[PDA(u)])
    /\ \A u, v \in Users : u # v => PDA(u) # PDA(v)
    /\ \A a \in Addresses : Cardinality(writers[a]) <= 1
    /\ { a \in Addresses : IsRecord(accounts[a]) } = { PDA(u) : u \in { w \in Users : written[w] # <<>> } }

\* C8 witness: two identities have each a record, at different addresses.
C8_Witness ==
    \E u, v \in Users :
        /\ u # v
        /\ writers[PDA(u)] = {u} /\ writers[PDA(v)] = {v}
        /\ IsRecord(accounts[PDA(u)]) /\ IsRecord(accounts[PDA(v)])

\* C9: the record of U is absent until U's first successful call; that call
\* creates it and moves the creation cost from U's wallet to it, and fails when
\* the wallet holds less; a record that is present stays present, and later
\* calls change neither the wallet nor the lamports or size of the record.
C9_Lifecycle ==
    [][ \A u \in Users :
           /\ written'[u] = <<>> => accounts'[PDA(u)] = Absent
           /\ (accounts[PDA(u)] = Absent /\ accounts'[PDA(u)] # Absent)
                => /\ last'.call.user = u /\ last'.result = "Ok"
                   /\ IsRecord(accounts'[PDA(u)])
                   /\ accounts'[PDA(u)].lamports = CreationCost
                   /\ accounts'[u].lamports = accounts[u].lamports - CreationCost
                   /\ accounts'[u].lamports >= 0
           /\ (last'.call.user = u /\ OwnCall(last'.call) /\ accounts[PDA(u)] = Absent
                 /\ accounts[u].lamports < CreationCost)
                => (last'.result = "InsufficientFunds" /\ accounts' = accounts)
           /\ IsRecord(accounts[PDA(u)])
                => /\ IsRecord(accounts'[PDA(u)])
                   /\ accounts'[u].lamports = accounts[u].lamports
                   /\ accounts'[PDA(u)].lamports = accounts[PDA(u)].lamports
                   /\ accounts'[PDA(u)].space = accounts[PDA(u)].space
                   /\ { a \in Addresses : u \in writers'[a] } = { PDA(u) } ]_vars

\* C9 witness: one identity could not pay for its record, and another has paid
\* the creation cost of its own, once.
C9_Witness ==
    /\ last.result = "InsufficientFunds"
    /\ \E u \in Users :
          /\ IsRecord(accounts[PDA(u)])
          /\ accounts[u].lamports = 2 * CreationCost - CreationCost
          /\ accounts[PDA(u)].lamports = CreationCost

\* C10: the space of a record never changes after its creation, and the
\* encoded size of every stored record is at most that space.
C10_WithinReservation ==
    [][ \A a \in Addresses :
           /\ accounts[a].owner = PROGRAM_ID => accounts'[a].space = accounts[a].space
           /\ IsRecord(accounts'[a])
                => EncodedSize(try_deserialize(accounts'[a].data)) <= accounts'[a].space ]_vars

\* C10 witness: a record fills its space to the byte, and a call that would
\* have outgrown it has been refused.
C10_Witness ==
    /\ last.result = "AccountDidNotSerialize"
    /\ IsRecord(accounts[last.call.favorites])
    /\ EncodedSize(try_deserialize(accounts[last.call.favorites].data))
          = accounts[last.call.favorites].space

====
